---- MODULE Spec2Model ----
(***************************************************************************)
(* State-machine model of the protocol engine of the UHF RFID reader       *)
(* driver: rfid/reader.py (class Reader) over rfid/transport.py            *)
(* (SerialTransport, TcpTransport, UsbTransport).                          *)
(*                                                                         *)
(* One reader, one transport.  The device side is the environment: it      *)
(* delivers bytes (serial, TCP) or bulk packets (USB) and may drop the     *)
(* link.  A blocking read of the engine sees what has arrived by then; a   *)
(* command's reply arrives after the command was written, so every         *)
(* operation is split where it blocks on the transport: the part up to and *)
(* including the write, and each call of __receive_response.               *)
(***************************************************************************)
EXTENDS Integers, Sequences, FiniteSets, TLC

VARIABLES
    kind,          \* the Transport subclass: "serial", "tcp" or "usb"
    tcp,           \* the fields of a TcpTransport: ip_address, port, timeout
                   \* and socket
    link,          \* TRUE while the device is connected
    rx,            \* pending input, in the pieces it arrived in: on USB each
                   \* piece is one bulk packet, on serial and TCP the pieces
                   \* form one byte stream
    tx,            \* output the transport has accepted and not yet sent on;
                   \* a write of the engine has reached the device when it
                   \* returns, so the engine leaves tx as it finds it
    is_inventory,  \* Reader.is_inventory (the spec's is_busy)
    gen,           \* the generator object of the last streaming call
    call,          \* the blocking (non-generator) call in flight
    io,            \* the transport calls made by the last engine step
    ret            \* what the last step handed back to its caller

vars == <<kind, tcp, link, rx, tx, is_inventory, gen, call, io, ret>>

(***************************************************************************)
(* Bounds of the model.                                                    *)
(***************************************************************************)
MaxRxBytes == 16   \* bytes of input the device may have pending
MaxSpins   == 2    \* loop iterations counted inside one request

(***************************************************************************)
(* Protocol constants.  rfid/command.py, rfid/status.py and the HEADER     *)
(* constant are not among the source files; their values are taken as the  *)
(* spec describes them (opcodes 16 bit, status 1 byte, HEADER a sentinel). *)
(***************************************************************************)
HEADER                 == 207
INVENTORY_ISO_CONTINUE == 1
INVENTORY_STOP         == 2
READ_ISO_TAG           == 3
WRITE_ISO_TAG          == 4
LOCK_ISO_TAG           == 5
KILL_ISO_TAG           == 6
GET_DEVICE_INFO        == 112
SET_GET_PERMISSION     == 113
SET_POWER              == 114
RELEASE_CLOSE_RELAY    == 115
SELECT_MASK            == 116
INVENTORY_RANGE        == 117
CommandOption_SET      == 2
SUCCESS                == 0
NO_COUNT_LABEL         == 18
OTHER_STATUS           == 1
RetryCeiling           == 20

CommandRequest == {INVENTORY_ISO_CONTINUE, INVENTORY_STOP, READ_ISO_TAG,
                   WRITE_ISO_TAG, LOCK_ISO_TAG, KILL_ISO_TAG, GET_DEVICE_INFO,
                   SET_GET_PERMISSION, SET_POWER, RELEASE_CLOSE_RELAY,
                   SELECT_MASK, INVENTORY_RANGE}
StatusValues   == {SUCCESS, NO_COUNT_LABEL, OTHER_STATUS}
NoCommand      == 0 - 1        \* command_response = None (reader.py:87)

WorkModes   == {"ANSWER_MODE", "ACTIVE_MODE", "TRIGGER_MODE"}
StreamOps   == {"start_inventory", "read_memory", "write_memory",
                "lock_memory", "kill_tag"}
Kinds       == {"serial", "tcp", "usb"}

(***************************************************************************)
(* Sequences of bytes.                                                     *)
(***************************************************************************)
Min(a, b) == IF a < b THEN a ELSE b
Max(a, b) == IF a < b THEN b ELSE a
\* Python slice s[a:b] for 0 <= a, 0 <= b (0-based, end exclusive, clipped)
Slice(s, a, b) == SubSeq(s, Min(a, Len(s)) + 1, Min(b, Len(s)))
\* int.from_bytes(s, "big")
RECURSIVE FromBytes(_)
FromBytes(s) == IF s = <<>> THEN 0
                ELSE 256 * FromBytes(SubSeq(s, 1, Len(s) - 1)) + s[Len(s)]

(***************************************************************************)
(* The wire frame: HEADER ADDRESS OPCODE(2) LENGTH PAYLOAD CHECKSUM(2).    *)
(* The checksum routine lives outside the source files and the engine      *)
(* never computes it on receive; its two bytes are carried as zeros.       *)
(***************************************************************************)
Frame(opcode, payload) ==
    <<HEADER, 0, opcode \div 256, opcode % 256, Len(payload)>>
        \o payload \o <<0, 0>>

(***************************************************************************)
(* Transport calls as they appear in io.                                   *)
(***************************************************************************)
EvClear    == [ev |-> "clear", op |-> NoCommand]
EvRead     == [ev |-> "read",  op |-> NoCommand]
EvWrite(c) == [ev |-> "write", op |-> c]

\* For comparison: a clear_buffer that drops the input on every transport
clear_buffer_all(k, buf) == <<>>
\* Transport.clear_buffer: a no-op for TCP and USB, serial drops its input
\* (serial.reset_input_buffer())
clear_buffer(k, buf) == IF k = "serial" THEN <<>> ELSE buf
\* and its output (serial.reset_output_buffer())
clear_output(k, out) == IF k = "serial" THEN <<>> ELSE out

\* The exception a dead link raises out of a transport call
LinkError(k) == IF k = "usb" THEN "USBError" ELSE "IOError"

\* The first n bytes of a byte stream held in pieces: [data, rx]
RECURSIVE TakeBytes(_, _)
TakeBytes(buf, n) ==
    IF n = 0 \/ buf = <<>> THEN [data |-> <<>>, rx |-> buf]
    ELSE IF Len(Head(buf)) <= n THEN
        [data |-> Head(buf) \o TakeBytes(Tail(buf), n - Len(Head(buf))).data,
         rx   |-> TakeBytes(Tail(buf), n - Len(Head(buf))).rx]
    ELSE [data |-> Slice(Head(buf), 0, n),
          rx   |-> <<Slice(Head(buf), n, Len(Head(buf)))>> \o Tail(buf)]

\* Transport.read_bytes: [exc, data, rx]
ReadOk(t) == [exc |-> "", data |-> t.data, rx |-> t.rx]
read_bytes(k, up, buf, n) ==
    IF ~up THEN [exc |-> LinkError(k), data |-> <<>>, rx |-> buf]
    ELSE IF k = "usb" THEN
        IF buf = <<>> THEN [exc |-> "USBError", data |-> <<>>, rx |-> buf]
        ELSE [exc |-> "", data |-> Head(buf), rx |-> Tail(buf)]
    ELSE IF k = "tcp" /\ buf = <<>> THEN
        [exc |-> "TimeoutError", data |-> <<>>, rx |-> buf]
    ELSE ReadOk(TakeBytes(buf, n))

(***************************************************************************)
(* Reader.__receive_response.__receive: one receive attempt.               *)
(* Result: [res, exc, raw, rx, io, tries], res one of "raw", "none", "exc"; *)
(* tries is filled in by the loop around it: the attempts it has made.     *)
(***************************************************************************)
Got(raw, buf, evs) ==
    [res |-> "raw", exc |-> "", raw |-> raw, rx |-> buf, io |-> evs, tries |-> 0]
GotNone(buf, evs) ==
    [res |-> "none", exc |-> "", raw |-> <<>>, rx |-> buf, io |-> evs, tries |-> 0]
Raised(e, buf, evs) ==
    [res |-> "exc", exc |-> e, raw |-> <<>>, rx |-> buf, io |-> evs, tries |-> 0]

\* `while len(raw_resp) < all_len: raw_resp += self.transport.read_bytes()`
RECURSIVE usb_fill(_, _, _, _, _)
usb_more(up, raw, r, all_len, evs) ==
    IF r.exc # "" THEN Raised(r.exc, r.rx, evs)
    ELSE usb_fill(up, raw \o r.data, r.rx, all_len, evs)
usb_fill(up, raw, buf, all_len, evs) ==
    IF Len(raw) >= all_len THEN Got(raw, buf, evs)
    ELSE usb_more(up, raw, read_bytes("usb", up, buf, 0), all_len, Append(evs, EvRead))

\* the USB branch, r the first packet read
receive_usb(up, r, loop_usb) ==
    IF r.exc # "" THEN Raised(r.exc, r.rx, <<EvRead>>)
    ELSE IF ~loop_usb THEN Got(r.data, r.rx, <<EvRead>>)
    ELSE IF Len(r.data) < 5 THEN Raised("IndexError", r.rx, <<EvRead>>)
    ELSE usb_fill(up, r.data, r.rx, 4 + r.data[5] + 2, <<EvRead>>)

\* the serial / TCP branch: h the 5-byte prefix read, b the body read
receive_body(h, b) ==
    IF b.exc # "" THEN Raised(b.exc, b.rx, <<EvRead, EvRead>>)
    ELSE Got(h.data \o b.data, b.rx, <<EvRead, EvRead>>)
receive_stream(k, up, h, verify_header) ==
    IF h.exc # "" THEN Raised(h.exc, h.rx, <<EvRead>>)
    ELSE IF Len(h.data) <= 0 \/ (~verify_header /\ h.data[1] # HEADER)
        THEN GotNone(clear_buffer(k, h.rx), <<EvRead, EvClear>>)
    ELSE IF Len(h.data) # 5 THEN Raised("AssertionError", h.rx, <<EvRead>>)
    ELSE receive_body(h, read_bytes(k, up, h.rx, h.data[5] + 2))

receive(k, up, buf, verify_header, loop_usb) ==
    IF k = "usb" THEN receive_usb(up, read_bytes(k, up, buf, 0), loop_usb)
    ELSE receive_stream(k, up, read_bytes(k, up, buf, 5), verify_header)

\* CommandRequest(int.from_bytes(raw_response[2:4], "big")), None on ValueError
command_response(raw) ==
    IF FromBytes(Slice(raw, 2, 4)) \in CommandRequest
    THEN FromBytes(Slice(raw, 2, 4)) ELSE NoCommand

(***************************************************************************)
(* Reader.__receive_response: up to RetryCeiling attempts, from attempt i. *)
(***************************************************************************)
\* `if len(raw_response) > 0 and raw_response[0] != HEADER: clear_buffer()`
\* For comparison: a loop that flushes after every attempt
any_frame(raw) == TRUE
bad_header(raw) == Len(raw) > 0 /\ raw[1] # HEADER
after_attempt(k, r) ==
    [r EXCEPT !.rx = IF bad_header(r.raw) THEN clear_buffer(k, r.rx) ELSE r.rx,
              !.io = IF bad_header(r.raw) THEN Append(r.io, EvClear) ELSE r.io]

\* For comparison: a loop with no ceiling
last_attempt_never(i) == FALSE
\* `for i in range(20)`: attempt i (from 0) is the last one
last_attempt(i) == i + 1 >= RetryCeiling

RECURSIVE receive_loop(_, _, _, _, _, _, _, _)
receive_next(k, up, r, command_request, verify_header, loop_usb, i, evs) ==
    IF r.res # "raw" THEN [r EXCEPT !.io = evs \o r.io, !.tries = i + 1]
    ELSE IF command_response(r.raw) = command_request \/ last_attempt(i)
        THEN [r EXCEPT !.io = evs \o r.io, !.tries = i + 1]
    ELSE receive_loop(k, up, r.rx, command_request,
                      verify_header, loop_usb, i + 1, evs \o r.io)
receive_loop(k, up, buf, command_request, verify_header, loop_usb, i, evs) ==
    receive_next(k, up, after_attempt(k, receive(k, up, buf, verify_header, loop_usb)),
                 command_request, verify_header, loop_usb, i, evs)

receive_response(k, up, buf, command_request, verify_header, loop_usb) ==
    receive_loop(k, up, buf, command_request, verify_header, loop_usb, 0, <<>>)

(***************************************************************************)
(* Reader.__send_request: [exc, rx, io].  A write on a dead link raises.   *)
(***************************************************************************)
send_request(k, up, buf, command, clear) ==
    [exc |-> IF up THEN "" ELSE LinkError(k),
     rx  |-> IF clear THEN clear_buffer(k, buf) ELSE buf,
     io  |-> (IF clear THEN <<EvClear>> ELSE <<>>) \o <<EvWrite(command)>>]

(***************************************************************************)
(* The typed response parsers (rfid/response.py) are not among the source  *)
(* files.  Response(raw) is modelled from the spec's decode steps: bad     *)
(* header, short frame and unknown status are parse errors; the status is  *)
(* the first payload byte.  Result: [act, exc, frame, status].             *)
(***************************************************************************)
Item(frame, status) == [act |-> "yield", exc |-> "", frame |-> frame, status |-> status]
Skip                == [act |-> "continue", exc |-> "", frame |-> <<>>, status |-> NoCommand]
Throw(e)            == [act |-> "raise", exc |-> e, frame |-> <<>>, status |-> NoCommand]

Response(raw) ==
    IF Len(raw) = 0 \/ raw[1] # HEADER THEN Throw("ParseError")
    ELSE IF Len(raw) < 5 \/ raw[5] < 1 \/ Len(raw) < 5 + raw[5] + 2 THEN Throw("ParseError")
    ELSE IF raw[6] \notin StatusValues THEN Throw("ParseError")
    ELSE Item(Slice(raw, 0, 5 + raw[5] + 2), raw[6])

(***************************************************************************)
(* Reader.start_inventory, lines 580-611: what one received buffer becomes.*)
(***************************************************************************)
\* For comparison: an item built from the whole buffer, nothing trimmed
inventory_item_whole(k, response) ==
    IF Len(response) < 6 THEN Skip ELSE Item(response, response[6])
\* For comparison: a loop body without the INVENTORY_STOP test
swallows_nothing(opcode) == FALSE
\* `if command_request == CommandRequest.INVENTORY_STOP: continue`
swallows_stop(opcode) == opcode = INVENTORY_STOP
\* For comparison: a loop body without the payload length check
length_unchecked(n, length) == FALSE
\* `if len(body_n_checksum_section) - 2 != length: continue`
length_mismatch(n, length) == n - 2 # length
inventory_item(k, response) ==
    IF response[1] # HEADER THEN Skip
    ELSE IF Len(response) < 5 THEN Throw("IndexError")
    ELSE LET header_section == Slice(response, 0, 5)
             length         == response[5]
             opcode         == FromBytes(Slice(header_section, 2, 4))
             body_n_checksum_section == Slice(response, 5, 4 + length + 2 + 1)
             n              == Len(body_n_checksum_section)
             body_section   == Slice(body_n_checksum_section, 1, Max(n - 2, 0))
         IN  IF opcode \notin CommandRequest THEN Throw("ValueError")
             ELSE IF swallows_stop(opcode) THEN Skip
             ELSE IF n = 0 THEN Throw("IndexError")
             ELSE IF body_n_checksum_section[1] \notin StatusValues THEN Throw("ValueError")
             ELSE IF length_mismatch(n, length) THEN Skip
             ELSE IF k = "usb" /\ body_n_checksum_section[1] = SUCCESS
                     /\ Len(body_section) < 5 THEN Throw("IndexError")
             ELSE IF k = "usb" /\ body_n_checksum_section[1] = SUCCESS
                     /\ Len(Slice(body_section, 0, body_section[5])) # body_section[5]
                  THEN Skip
             ELSE Item(header_section \o body_n_checksum_section,
                       body_n_checksum_section[1])

(***************************************************************************)
(* The decision points of the five streaming loops and of stop_inventory.  *)
(***************************************************************************)
StreamCommand(op) ==
    CASE op = "start_inventory" -> INVENTORY_ISO_CONTINUE
      [] op = "read_memory"     -> READ_ISO_TAG
      [] op = "write_memory"    -> WRITE_ISO_TAG
      [] op = "lock_memory"     -> LOCK_ISO_TAG
      [] OTHER                  -> KILL_ISO_TAG

\* For comparison: a loop that never looks at the flag
while_forever(flag) == TRUE
\* `while self.is_inventory:`
while_condition(flag) == flag
\* For comparison: a loop that breaks on every status but SUCCESS
is_terminator_on_error(status) == status # SUCCESS
\* For comparison: a loop that breaks on SUCCESS instead
is_terminator_on_success(status) == status = SUCCESS
\* `if response.status == Status.NO_COUNT_LABEL: break` (after the yield)
is_terminator(status) == status = NO_COUNT_LABEL
\* a receive that returned None: `yield None; continue` or a bare `continue`
yields_none(op) == op \in {"start_inventory", "read_memory"}
\* `except (USBError, TimeoutError)` around the receive of start_inventory
stream_catches(op, exc) ==
    op = "start_inventory" /\ exc \in {"USBError", "TimeoutError"}
\* the asserts of read_memory / write_memory run before is_inventory = True
asserts_args(op) == op \in {"read_memory", "write_memory"}
\* start_inventory raises ValueError after is_inventory = True
needs_parameter(op, mode) == op = "start_inventory" /\ mode = "ANSWER_MODE"
\* For comparison: streaming operations that never write their command
stream_sends_never(op, mode) == FALSE
\* For comparison: a start_inventory that writes in every work mode
stream_sends_always(op, mode) == TRUE
\* start_inventory writes its command in ANSWER_MODE only
stream_sends(op, mode) == op # "start_inventory" \/ mode = "ANSWER_MODE"
\* the receive flags: start_inventory passes verify_header=False, loop_usb=False
stream_flags(op) == op # "start_inventory"

\* For comparison: a stop_inventory without the inner `if self.is_inventory`
stop_sends_always(work_mode, flag) == work_mode = "ANSWER_MODE"
\* stop_inventory: `if work_mode == ANSWER_MODE: if self.is_inventory: send`
stop_sends(work_mode, flag) == work_mode = "ANSWER_MODE" /\ flag
\* For comparison: a stop_inventory without the outer `if work_mode == ...`
stop_receives_always(work_mode) == TRUE
\* stop_inventory: the receive is attempted in ANSWER_MODE, sent or not
stop_receives(work_mode) == work_mode = "ANSWER_MODE"
\* stop_inventory: `except (USBError, TimeoutError)`
stop_swallows(exc) == exc \in {"USBError", "TimeoutError"}
\* For comparison: a stop_inventory without its last statement
stop_flag_kept(flag) == flag
\* stop_inventory: `self.is_inventory = False` as its last statement
stop_flag(flag) == FALSE

(***************************************************************************)
(* What the device may send.  A reply answers the command in flight; an    *)
(* stop acknowledgement may arrive at any time, as may a frame with an     *)
(* opcode outside the catalog, a stray byte and a prefix cut short.        *)
(***************************************************************************)
StatusFrame(opcode, status) == Frame(opcode, <<status>>)
TagFrame(opcode)            == Frame(opcode, <<SUCCESS, 0, 0, 1, 0, 1, 7>>)
SuccessFrame(opcode) ==
    IF opcode = INVENTORY_ISO_CONTINUE THEN TagFrame(opcode)
    ELSE StatusFrame(opcode, SUCCESS)

DeviceOpcodes ==
    {INVENTORY_STOP}
        \cup (IF gen.op # "none" THEN {StreamCommand(gen.op)} ELSE {})
        \cup (IF call.op # "none" THEN {call.cmd} ELSE {})

StrayByte   == <<255>>
ShortPrefix == <<HEADER, 0, 0>>
AlienFrame  == Frame(238, <<SUCCESS>>)

\* Line noise (serial) and runt packets (USB); TCP is a reliable stream of
\* what the device sent.  Noise is rare: at most one piece of it is pending.
Noise == {StrayByte, ShortPrefix}

RECURSIVE Bytes(_)
Bytes(buf) == IF buf = <<>> THEN 0 ELSE Len(Head(buf)) + Bytes(Tail(buf))

Deliveries ==
    {SuccessFrame(o) : o \in DeviceOpcodes}
        \cup (IF gen.op # "none"
              THEN {StatusFrame(StreamCommand(gen.op), st) :
                        st \in {NO_COUNT_LABEL, OTHER_STATUS}}
              ELSE {})
        \cup {AlienFrame}
        \cup (IF kind = "tcp" THEN {} ELSE Noise)

(***************************************************************************)
(* State.                                                                  *)
(***************************************************************************)
\* A TcpTransport: the fields __init__ assigns and the socket connect()
\* makes, which records what it was connected to.  The engine never reads
\* them: outside the transport's own operations they stay as they are.
Socket(ip_address, port, timeout, connected) ==
    [ip_address |-> ip_address, port |-> port, timeout |-> timeout,
     connected |-> connected]
Tcp(ip_address, port, timeout) ==
    [ip_address |-> ip_address, port |-> port, timeout |-> timeout,
     socket |-> Socket(ip_address, port, timeout, TRUE)]
NoTcp == Tcp("", 0, 0)

NoGen  == [op |-> "none", pc |-> "none", mode |-> "ANSWER_MODE", okargs |-> TRUE,
           started |-> FALSE, term |-> FALSE, spins |-> 0]
NoCall == [op |-> "none", cmd |-> NoCommand, mode |-> ""]
\* ret: the operation, how its step ended, the exception raised or swallowed,
\* the frame handed back, the work mode (stop_inventory) or the reason the
\* sequence ended (a stream), the receive attempts the step has made, the
\* bytes it has taken from the transport and the command data it has sent
RetArg(op, out, exc, item, arg) ==
    [op |-> op, out |-> out, exc |-> exc, item |-> item, arg |-> arg,
     tries |-> 0, took |-> 0, sent |-> <<>>]
Ret(op, out, exc, item) == RetArg(op, out, exc, item, "")

Init ==
    /\ kind \in Kinds
    /\ tcp = NoTcp
    /\ link = TRUE
    /\ rx = <<>>
    /\ tx = <<>>
    /\ is_inventory = FALSE
    /\ gen = NoGen
    /\ call = NoCall
    /\ io = <<>>
    /\ ret = Ret("init", "none", "", <<>>)

\* The caller holds control: no call of the engine is blocked in the transport
Idle == call.op = "none" /\ gen.pc # "running"

(***************************************************************************)
(* The device.  Input matters to the engine only where it reads, and it    *)
(* reads only while a call is blocked in the transport: an arrival is      *)
(* modelled there.  What a call leaves unread stays pending for the next.  *)
(***************************************************************************)
Deliver ==
    /\ link
    /\ ~Idle
    /\ \E d \in Deliveries :
          /\ Bytes(rx) + Len(d) <= MaxRxBytes
          /\ d \in Noise => \A i \in 1..Len(rx) : rx[i] \notin Noise
          /\ rx' = Append(rx, d)
    /\ io' = <<>>
    /\ ret' = Ret("device", "delivered", "", <<>>)
    /\ UNCHANGED <<kind, tcp, tx, link, is_inventory, gen, call>>

Disconnect ==
    /\ link
    /\ link' = FALSE
    /\ rx' = <<>>
    /\ io' = <<>>
    /\ ret' = Ret("device", "disconnected", "", <<>>)
    /\ UNCHANGED <<kind, tcp, tx, is_inventory, gen, call>>

(***************************************************************************)
(* One-shot operations (get_device_info and the like): __send_request with *)
(* clear_buffer, then Response(__receive_response(cmd)).                   *)
(* set_mask_inventory_permission is the one that goes on after its         *)
(* response: it starts an inventory and stops it, reading nothing.         *)
(***************************************************************************)
OneShotCommands == {GET_DEVICE_INFO, SET_GET_PERMISSION}

OneShotSend ==
    /\ Idle
    /\ \E cmd \in OneShotCommands :
          LET s == send_request(kind, link, rx, cmd, TRUE) IN
          /\ rx' = s.rx
          /\ io' = s.io
          /\ IF s.exc # ""
             THEN /\ call' = call
                  /\ ret' = Ret("one_shot", "raised", s.exc, <<>>)
             ELSE /\ call' = [op |-> "one_shot", cmd |-> cmd, mode |-> ""]
                  /\ ret' = Ret("one_shot", "sent", "", <<>>)
    /\ UNCHANGED <<kind, tcp, tx, link, is_inventory, gen>>

one_shot_return(r, it) ==
    IF r.res = "exc" THEN Ret("one_shot", "raised", r.exc, <<>>)
    ELSE IF it.act = "raise" THEN Ret("one_shot", "raised", it.exc, r.raw)
    ELSE Ret("one_shot", "returned", "", it.frame)

\* set_mask_inventory_permission, after `response = Response(...)`:
\* __send_request(INVENTORY_ISO_CONTINUE, clear_buffer=True), sleep(0.2),
\* __send_request(INVENTORY_STOP, clear_buffer=False)
writes_after_response(cmd) == cmd = SET_GET_PERMISSION
one_shot_tail(cmd, k, buf, returned) ==
    IF returned /\ writes_after_response(cmd)
    THEN [rx |-> clear_buffer(k, buf),
          io |-> <<EvClear, EvWrite(INVENTORY_ISO_CONTINUE), EvWrite(INVENTORY_STOP)>>]
    ELSE [rx |-> buf, io |-> <<>>]

OneShotDone(r, rt) ==
    /\ rx' = one_shot_tail(call.cmd, kind, r.rx, rt.out = "returned").rx
    /\ io' = r.io \o one_shot_tail(call.cmd, kind, r.rx, rt.out = "returned").io
    /\ ret' = [rt EXCEPT !.tries = r.tries, !.took = Bytes(rx) - Bytes(r.rx)]

OneShotReceived(r) ==
    OneShotDone(r, one_shot_return(r, IF r.res = "raw" THEN Response(r.raw)
                                      ELSE Throw("ParseError")))

OneShotReceive ==
    /\ call.op = "one_shot"
    /\ OneShotReceived(receive_response(kind, link, rx, call.cmd, TRUE, TRUE))
    /\ call' = NoCall
    /\ UNCHANGED <<kind, tcp, tx, link, is_inventory, gen>>

(***************************************************************************)
(* Reader.stop_inventory: up to the write, then the best-effort receive.   *)
(***************************************************************************)
StopInventory ==
    /\ Idle
    /\ \E work_mode \in WorkModes :
          IF stop_receives(work_mode)
          THEN IF stop_sends(work_mode, is_inventory)
               THEN LET s == send_request(kind, link, rx, INVENTORY_STOP, FALSE) IN
                    /\ rx' = s.rx
                    /\ io' = s.io
                    /\ IF s.exc # ""
                       THEN /\ call' = call
                            /\ ret' = RetArg("stop_inventory", "write_raised", s.exc,
                                             <<>>, work_mode)
                       ELSE /\ call' = [op |-> "stop_inventory", cmd |-> INVENTORY_STOP,
                                        mode |-> work_mode]
                            /\ ret' = RetArg("stop_inventory", "sent", "", <<>>, work_mode)
                    /\ UNCHANGED is_inventory
               ELSE /\ call' = [op |-> "stop_inventory", cmd |-> INVENTORY_STOP,
                                mode |-> work_mode]
                    /\ ret' = RetArg("stop_inventory", "unsent", "", <<>>, work_mode)
                    /\ io' = <<>>
                    /\ UNCHANGED <<rx, is_inventory>>
          ELSE /\ is_inventory' = stop_flag(is_inventory)
               /\ ret' = RetArg("stop_inventory", "returned", "", <<>>, work_mode)
               /\ io' = <<>>
               /\ UNCHANGED <<rx, call>>
    /\ UNCHANGED <<kind, tcp, tx, link, gen>>

StopReceived(r) ==
    /\ rx' = r.rx
    /\ io' = r.io
    /\ IF r.res = "exc" /\ ~stop_swallows(r.exc)
       THEN /\ ret' = [RetArg("stop_inventory", "raised", r.exc, <<>>, call.mode)
                           EXCEPT !.tries = r.tries, !.took = Bytes(rx) - Bytes(r.rx)]
            /\ UNCHANGED is_inventory
       ELSE /\ ret' = [RetArg("stop_inventory", "returned", r.exc, r.raw, call.mode)
                           EXCEPT !.tries = r.tries, !.took = Bytes(rx) - Bytes(r.rx)]
            /\ is_inventory' = stop_flag(is_inventory)

StopReceive ==
    /\ call.op = "stop_inventory"
    /\ StopReceived(receive_response(kind, link, rx, INVENTORY_STOP, TRUE, TRUE))
    /\ call' = NoCall
    /\ UNCHANGED <<kind, tcp, tx, link, gen>>

(***************************************************************************)
(* The five streaming operations are generator functions: the call only    *)
(* creates the generator, whose body runs when the consumer asks for an    *)
(* item.                                                                   *)
(***************************************************************************)
CallStream ==
    /\ Idle
    /\ \E op \in StreamOps, work_mode \in WorkModes, okargs \in BOOLEAN :
          /\ op # "start_inventory" => work_mode = "ANSWER_MODE"
          /\ ~(asserts_args(op) \/ needs_parameter(op, work_mode)) => okargs
          /\ gen' = [op |-> op, pc |-> "created", mode |-> work_mode,
                     okargs |-> okargs, started |-> FALSE, term |-> FALSE,
                     spins |-> 0]
          /\ ret' = Ret(op, "created", "", <<>>)
    /\ io' = <<>>
    /\ UNCHANGED <<kind, tcp, tx, link, rx, is_inventory, call>>

\* next(generator): control passes to the generator body
Request ==
    /\ Idle
    /\ gen.pc \in {"created", "suspended"}
    /\ gen' = [gen EXCEPT !.pc = "running", !.spins = 0]
    /\ ret' = Ret(gen.op, "requested", "", <<>>)
    /\ io' = <<>>
    /\ UNCHANGED <<kind, tcp, tx, link, rx, is_inventory, call>>

\* The body up to the loop: argument checks, is_inventory = True, the write
GenStart ==
    /\ gen.pc = "running" /\ ~gen.started
    /\ LET s == send_request(kind, link, rx, StreamCommand(gen.op), TRUE) IN
       IF asserts_args(gen.op) /\ ~gen.okargs
       THEN /\ gen' = [gen EXCEPT !.pc = "raised"]
            /\ ret' = Ret(gen.op, "raised", "AssertionError", <<>>)
            /\ io' = <<>>
            /\ UNCHANGED <<rx, is_inventory>>
       ELSE /\ is_inventory' = TRUE
            /\ IF needs_parameter(gen.op, gen.mode) /\ ~gen.okargs
               THEN /\ gen' = [gen EXCEPT !.pc = "raised"]
                    /\ ret' = Ret(gen.op, "raised", "ValueError", <<>>)
                    /\ io' = <<>>
                    /\ UNCHANGED rx
               ELSE IF stream_sends(gen.op, gen.mode)
               THEN /\ rx' = s.rx
                    /\ io' = s.io
                    /\ IF s.exc # ""
                       THEN /\ gen' = [gen EXCEPT !.pc = "raised"]
                            /\ ret' = Ret(gen.op, "raised", s.exc, <<>>)
                       ELSE /\ gen' = [gen EXCEPT !.started = TRUE]
                            /\ ret' = Ret(gen.op, "started", "", <<>>)
               ELSE /\ gen' = [gen EXCEPT !.started = TRUE]
                    /\ ret' = Ret(gen.op, "started", "", <<>>)
                    /\ io' = <<>>
                    /\ UNCHANGED rx
    /\ UNCHANGED <<kind, tcp, tx, link, call>>

\* One pass of the loop body: what the receive result r becomes
stream_item(op, k, r) ==
    IF r.res = "exc"
      THEN IF stream_catches(op, r.exc) THEN Item(<<>>, NoCommand) ELSE Throw(r.exc)
    ELSE IF r.res = "none" \/ (op = "start_inventory" /\ Len(r.raw) <= 0)
      THEN IF yields_none(op) THEN Item(<<>>, NoCommand) ELSE Skip
    ELSE IF op = "start_inventory" THEN inventory_item(k, r.raw)
    ELSE Response(r.raw)

stream_receive(op, k, up, buf) ==
    receive_response(k, up, buf, StreamCommand(op), stream_flags(op), stream_flags(op))

GenHandled(it, n, took) ==
    CASE it.act = "yield" ->
           /\ gen' = [gen EXCEPT !.pc = "suspended", !.term = is_terminator(it.status)]
           /\ ret' = [Ret(gen.op, IF it.frame = <<>> THEN "yielded_none" ELSE "yielded",
                          "", it.frame) EXCEPT !.tries = n, !.took = took]
      [] it.act = "continue" ->
           /\ gen' = [gen EXCEPT !.spins = Min(@ + 1, MaxSpins)]
           /\ ret' = [Ret(gen.op, "continued", "", <<>>)
                           EXCEPT !.tries = n, !.took = took]
      [] OTHER ->
           /\ gen' = [gen EXCEPT !.pc = "raised"]
           /\ ret' = [Ret(gen.op, "raised", it.exc, <<>>)
                           EXCEPT !.tries = n, !.took = took]

GenReceived(r) ==
    /\ rx' = r.rx
    /\ io' = r.io
    /\ GenHandled(stream_item(gen.op, kind, r), r.tries, Bytes(rx) - Bytes(r.rx))

\* One pass of the `while self.is_inventory` loop, entered at its test (or at
\* the `break` that follows the yield of a terminator)
GenLoop ==
    /\ gen.pc = "running" /\ gen.started
    /\ IF gen.term \/ ~while_condition(is_inventory)
       THEN /\ is_inventory' = FALSE
            /\ gen' = [gen EXCEPT !.pc = "done", !.term = FALSE]
            /\ ret' = RetArg(gen.op, "ended", "", <<>>,
                             IF gen.term THEN "terminator" ELSE "cancelled")
            /\ io' = <<>>
            /\ UNCHANGED rx
       ELSE /\ GenReceived(stream_receive(gen.op, kind, link, rx))
            /\ UNCHANGED is_inventory
    /\ UNCHANGED <<kind, tcp, tx, link, call>>

Next ==
    \/ Deliver
    \/ Disconnect
    \/ OneShotSend
    \/ OneShotReceive
    \/ StopInventory
    \/ StopReceive
    \/ CallStream
    \/ Request
    \/ GenStart
    \/ GenLoop

Spec == Init /\ [][Next]_vars

(***************************************************************************)
(* The receive paths on input that is already pending.  A call is blocked  *)
(* in its receive (a one-shot call after its write, an inventory after its *)
(* command) and the device has sent a burst: frames answering other        *)
(* commands, the reply, a frame with a damaged first byte, a frame that    *)
(* spans two bulk packets, two frames in one bulk packet.                  *)
(***************************************************************************)
MaxStrays == 21    \* frames of another opcode ahead of the reply

\* UsbTransport.max_packet_size (wMaxPacketSize of the IN endpoint), scaled
max_packet_size == 24

Zeros(n) == [i \in 1..n |-> 0]
Copies(n, w) == [i \in 1..n |-> w]

\* A frame of max_packet_size + extra bytes carrying one tag
LongFrame(opcode, extra) ==
    Frame(opcode, <<SUCCESS, 0, 0, 1, 0, 1, 7>> \o Zeros(max_packet_size + extra - 14))

\* ep_in.read(max_packet_size): a frame arrives in packets of that size
RECURSIVE Packets(_)
Packets(f) ==
    IF Len(f) <= max_packet_size THEN <<f>>
    ELSE <<Slice(f, 0, max_packet_size)>> \o Packets(Slice(f, max_packet_size, Len(f)))

\* Well-formed frames that do not answer opcode
WrongFrames(opcode) ==
    {SuccessFrame(o) : o \in {INVENTORY_STOP, GET_DEVICE_INFO} \ {opcode}}
        \cup {AlienFrame}

\* The reply with its first byte damaged
BadHeaderFrame(opcode) == [SuccessFrame(opcode) EXCEPT ![1] = 255]

\* Two frames the device wrote back to back
DoubleFrames(opcode) ==
    {SuccessFrame(opcode) \o f :
        f \in {SuccessFrame(opcode), StatusFrame(opcode, NO_COUNT_LABEL)}}

PendingTails(opcode) ==
    {<<>>, <<SuccessFrame(opcode)>>,
     <<SuccessFrame(opcode), StatusFrame(opcode, NO_COUNT_LABEL)>>}

PendingInputs(k, opcode) ==
    {Copies(n, w) \o t :
        n \in 0..MaxStrays, w \in WrongFrames(opcode), t \in PendingTails(opcode)}
      \cup {<<BadHeaderFrame(opcode)>> \o t : t \in PendingTails(opcode)}
      \cup {<<StrayByte, SuccessFrame(opcode)>>}
      \cup {(IF k = "usb" THEN Packets(LongFrame(opcode, e))
             ELSE <<LongFrame(opcode, e)>>) \o t :
                e \in {1, 3}, t \in PendingTails(opcode)}
      \cup {<<d>> \o t : d \in DoubleFrames(opcode), t \in PendingTails(opcode)}

Receivers == {"one_shot", "start_inventory"}

PendingInit ==
    /\ kind \in Kinds
    /\ tcp = NoTcp
    /\ link = TRUE
    /\ tx = <<>>
    /\ \E who \in Receivers :
          /\ call = IF who = "one_shot"
                    THEN [op |-> "one_shot", cmd |-> GET_DEVICE_INFO, mode |-> ""]
                    ELSE NoCall
          /\ gen = IF who = "one_shot" THEN NoGen
                   ELSE [op |-> who, pc |-> "running", mode |-> "ANSWER_MODE",
                         okargs |-> TRUE, started |-> TRUE, term |-> FALSE,
                         spins |-> 0]
          /\ is_inventory = (who # "one_shot")
          /\ rx \in PendingInputs(kind, IF who = "one_shot" THEN GET_DEVICE_INFO
                                       ELSE StreamCommand(who))
          /\ ret = Ret(who, IF who = "one_shot" THEN "sent" ELSE "started", "", <<>>)
    /\ io = <<>>

PendingNext ==
    \/ OneShotReceive
    \/ GenLoop
    \/ Request

SpecPending == PendingInit /\ [][PendingNext]_vars

(***************************************************************************)
(* One-shot operations that take arguments: the checks they make, the      *)
(* command data they build, and the call up to its write.  The receive is  *)
(* OneShotReceive.                                                         *)
(***************************************************************************)
MaxPower == 33     \* `0 <= power <= 33`
MaxByte  == 255    \* 0xFF
MaxWord  == 65535  \* what to_bytes(2, "big") can hold

\* For comparison: a set_power without its assert
any_power(power, reserve) == TRUE
\* `assert (0 <= power <= 33) and (0x00 <= reserve <= 0x01)`
set_power_ok(power, reserve) ==
    (0 <= power /\ power <= MaxPower) /\ (0 <= reserve /\ reserve <= 1)

\* For comparison: a set_relay without its assert
any_relay(release, valid_time) == TRUE
\* `assert type(release) is bool and (0x00 <= valid_time <= 0xFF)`; release
\* is given as the text of the Python value
set_relay_ok(release, valid_time) ==
    release \in {"True", "False"} /\ (0 <= valid_time /\ valid_time <= MaxByte)
\* release_value: 0x01 to release, 0x02 to close
release_value(release) == IF release = "True" THEN 1 ELSE 2

\* `assert 0x00 <= start_address <= 0xFF`, `assert 0x00 <= length <= 0xFF`
set_inventory_range_ok(start_address, length) ==
    (0 <= start_address /\ start_address <= MaxByte)
        /\ (0 <= length /\ length <= MaxByte)

\* What an argument check that fails raises
assert_exc(ok) == IF ok THEN "" ELSE "AssertionError"

\* One call up to its write: exc is what building the command raised
OneShotCall(name, cmd, exc, data) ==
    /\ IF exc # ""
       THEN /\ ret' = Ret(name, "raised", exc, <<>>)
            /\ io' = <<>>
            /\ UNCHANGED <<rx, call>>
       ELSE LET s == send_request(kind, link, rx, cmd, TRUE) IN
            /\ rx' = s.rx
            /\ io' = s.io
            /\ IF s.exc # ""
               THEN /\ call' = call
                    /\ ret' = Ret(name, "raised", s.exc, <<>>)
               ELSE /\ call' = [op |-> "one_shot", cmd |-> cmd, mode |-> ""]
                    /\ ret' = [Ret(name, "sent", "", <<>>) EXCEPT !.sent = data]
    /\ UNCHANGED <<kind, tcp, tx, link, is_inventory, gen>>

set_power(power, reserve) ==
    OneShotCall("set_power", SET_POWER,
                assert_exc(set_power_ok(power, reserve)), <<power, reserve>>)

set_relay(release, valid_time) ==
    OneShotCall("set_relay", RELEASE_CLOSE_RELAY,
                assert_exc(set_relay_ok(release, valid_time)),
                <<release_value(release), valid_time>>)

set_inventory_range(start_address, length) ==
    OneShotCall("set_inventory_range", INVENTORY_RANGE,
                assert_exc(set_inventory_range_ok(start_address, length)),
                <<CommandOption_SET, start_address, length, 0, 0>>)

\* Argument values on both sides of each limit
Powers       == {0 - 1, 0, MaxPower, MaxPower + 1}
Reserves     == {0, 1, 2}
Releases     == {"True", "False", "1"}
ByteValues   == {0 - 1, 0, MaxByte, MaxByte + 1}

\* The caller makes the call when it holds control
SetPower ==
    /\ Idle
    /\ \E power \in Powers, reserve \in Reserves : set_power(power, reserve)
SetRelay ==
    /\ Idle
    /\ \E release \in Releases, valid_time \in ByteValues :
          set_relay(release, valid_time)
SetInventoryRange ==
    /\ Idle
    /\ \E start_address \in ByteValues, length \in ByteValues :
          set_inventory_range(start_address, length)

(***************************************************************************)
(* Reader.select_mask: the command data it builds from mask and            *)
(* start_address.                                                          *)
(***************************************************************************)
MaxMaskLen == 3    \* bytes of a mask

\* int.to_bytes(n, "big") for 0 <= v < 256^n
RECURSIVE to_bytes(_, _)
to_bytes(v, n) == IF n = 0 THEN <<>> ELSE Append(to_bytes(v \div 256, n - 1), v % 256)

\* `if len(mask) % 2 != 0: mask = mask + bytes(1)`
pad_mask(mask) == IF Len(mask) % 2 # 0 THEN mask \o <<0>> ELSE mask

\* For comparison: the length taken after the padding
select_mask_data_late(mask, start_address) ==
    to_bytes(start_address * 8, 2) \o <<Len(pad_mask(mask)) * 8>> \o pad_mask(mask)
\* data = bytearray(start_address); data.extend([length]); data.extend(mask)
select_mask_data(mask, start_address) ==
    to_bytes(start_address * 8, 2) \o <<Len(mask) * 8>> \o pad_mask(mask)

\* to_bytes(2, "big") raises OverflowError on a value it cannot hold, and
\* bytearray.extend raises ValueError on a length that is not a byte
select_mask_exc(mask, start_address) ==
    IF start_address * 8 < 0 \/ start_address * 8 > MaxWord THEN "OverflowError"
    ELSE IF Len(mask) * 8 > MaxByte THEN "ValueError"
    ELSE ""

select_mask(mask, start_address) ==
    OneShotCall("select_mask", SELECT_MASK, select_mask_exc(mask, start_address),
                IF select_mask_exc(mask, start_address) = ""
                THEN select_mask_data(mask, start_address) ELSE <<>>)

MaskBytes      == {0, 171}
\* every mask of up to MaxMaskLen bytes, and one too long for the length byte
Masks          == UNION {[1..n -> MaskBytes] : n \in 0..MaxMaskLen}
                      \cup {Zeros(MaxByte \div 8 + 1)}
StartAddresses == {0 - 1, 0, 1, MaxWord \div 8, MaxWord \div 8 + 1}

SelectMask ==
    /\ Idle
    /\ \E mask \in Masks, start_address \in StartAddresses :
          select_mask(mask, start_address)

(***************************************************************************)
(* The calls of a reader that has just been connected, up to the return of *)
(* the one-shot operations and up to the first write of the streaming      *)
(* ones.  The device may have sent a frame before the first call; what it  *)
(* sends later is left to the other specifications.                        *)
(***************************************************************************)
Leftovers == {<<>>, <<SuccessFrame(INVENTORY_STOP)>>}

CallsInit ==
    /\ kind \in Kinds
    /\ tcp = NoTcp
    /\ link = TRUE
    /\ rx \in Leftovers
    /\ tx = <<>>
    /\ is_inventory = FALSE
    /\ gen = NoGen
    /\ call = NoCall
    /\ io = <<>>
    /\ ret = Ret("init", "none", "", <<>>)

CallsNext ==
    \/ SetPower
    \/ SetRelay
    \/ SetInventoryRange
    \/ SelectMask
    \/ OneShotReceive
    \/ CallStream
    \/ Request
    \/ GenStart

SpecCalls == CallsInit /\ [][CallsNext]_vars

(***************************************************************************)
(* The transport on its own: clear_buffer and read_bytes called on a       *)
(* transport that holds input the device has sent and output that has not  *)
(* left yet.                                                               *)
(***************************************************************************)
\* An optional argument: omitted (None) or supplied
Omitted     == <<>>
Supplied(v) == <<v>>
\* Python truth of an optional str / int argument: None, "" and 0 are false
truthy_str(a) == a # Omitted /\ a[1] # ""
truthy_int(a) == a # Omitted /\ a[1] # 0

TcpAddresses == {"10.0.0.2", "10.0.0.3"}
TcpPorts     == {4001, 4002}
TcpTimeouts  == {3, 6}
TcpTransports ==
    {Tcp(a, p, t) : a \in TcpAddresses, p \in TcpPorts, t \in TcpTimeouts}

\* TcpTransport.connect(): a new socket with self.timeout, connected to
\* (self.ip_address, self.port) when the peer accepts
connect(self, accepted) ==
    [self EXCEPT !.socket = Socket(self.ip_address, self.port, self.timeout, accepted)]

\* The assignments of TcpTransport.reconnect
reconnect_assign(self, ip_address, port, timeout) ==
    [self EXCEPT
        !.ip_address = IF truthy_str(ip_address) THEN ip_address[1] ELSE @,
        !.timeout    = IF truthy_int(timeout) THEN timeout[1] ELSE @]

\* TcpTransport.reconnect(ip_address, port, timeout): close the socket, assign,
\* connect; what was pending on the closed socket is gone
reconnect(ip_address, port, timeout) ==
    /\ \E accepted \in BOOLEAN :
          /\ tcp' = connect(reconnect_assign(tcp, ip_address, port, timeout), accepted)
          /\ link' = accepted
          /\ ret' = Ret("reconnect", IF accepted THEN "returned" ELSE "raised",
                        IF accepted THEN "" ELSE "OSError", <<>>)
    /\ rx' = <<>>
    /\ io' = <<>>
    /\ UNCHANGED <<kind, tx, is_inventory, gen, call>>

ReconnectAddresses == {Omitted, Supplied("")} \cup {Supplied(a) : a \in TcpAddresses}
ReconnectPorts     == {Omitted} \cup {Supplied(p) : p \in TcpPorts}
ReconnectTimeouts  == {Omitted, Supplied(0)} \cup {Supplied(t) : t \in TcpTimeouts}

Reconnect ==
    /\ kind = "tcp"
    /\ \E ip_address \in ReconnectAddresses, port \in ReconnectPorts,
          timeout \in ReconnectTimeouts :
             reconnect(ip_address, port, timeout)

TransportPieces ==
    {<<>>, <<StrayByte>>, <<SuccessFrame(INVENTORY_STOP)>>,
     <<SuccessFrame(INVENTORY_ISO_CONTINUE)>>}
TransportInputs  == {a \o b : a \in TransportPieces, b \in TransportPieces}
TransportOutputs == {<<>>, <<0, 0>>, Frame(INVENTORY_STOP, <<>>)}

TransportInit ==
    /\ kind \in Kinds
    /\ tcp \in (IF kind = "tcp" THEN TcpTransports ELSE {NoTcp})
    /\ link = TRUE
    /\ rx \in TransportInputs
    /\ tx \in TransportOutputs
    /\ is_inventory = FALSE
    /\ gen = NoGen
    /\ call = NoCall
    /\ io = <<>>
    /\ ret = Ret("init", "none", "", <<>>)

\* Transport.clear_buffer()
ClearBuffer ==
    /\ rx' = clear_buffer(kind, rx)
    /\ tx' = clear_output(kind, tx)
    /\ io' = <<EvClear>>
    /\ ret' = Ret("clear_buffer", "returned", "", <<>>)
    /\ UNCHANGED <<kind, tcp, link, is_inventory, gen, call>>

\* Transport.read_bytes(length=5), on USB read_bytes()
ReadBytes ==
    /\ rx' = read_bytes(kind, link, rx, 5).rx
    /\ io' = <<EvRead>>
    /\ ret' = Ret("read_bytes",
                  IF read_bytes(kind, link, rx, 5).exc = "" THEN "returned" ELSE "raised",
                  read_bytes(kind, link, rx, 5).exc,
                  read_bytes(kind, link, rx, 5).data)
    /\ UNCHANGED <<kind, tcp, link, tx, is_inventory, gen, call>>

TransportNext ==
    \/ ClearBuffer
    \/ ReadBytes
    \/ Reconnect

SpecTransport == TransportInit /\ [][TransportNext]_vars

(***************************************************************************)
(* An abandoned iterator.  The consumer has dropped a streaming iterator   *)
(* that was suspended at an item other than the terminator: the generator  *)
(* is closed at its yield, none of the five bodies has a try/finally, so   *)
(* the `self.is_inventory = False` after the loop does not run.  From      *)
(* there the reader is used without stop_inventory.                        *)
(***************************************************************************)
AbandonedInit ==
    /\ kind \in Kinds
    /\ tcp = NoTcp
    /\ link = TRUE
    /\ rx = <<>>
    /\ tx = <<>>
    /\ is_inventory = TRUE
    /\ gen = NoGen
    /\ call = NoCall
    /\ io = <<>>
    /\ \E op \in StreamOps : ret = Ret(op, "abandoned", "", <<>>)

\* Reader.close(): self.transport.close()
Close ==
    /\ Idle
    /\ link' = FALSE
    /\ rx' = <<>>
    /\ io' = <<>>
    /\ ret' = Ret("close", "returned", "", <<>>)
    /\ UNCHANGED <<kind, tcp, tx, is_inventory, gen, call>>

AbandonedNext ==
    \/ Deliver
    \/ OneShotSend
    \/ OneShotReceive
    \/ Close
    \/ CallStream
    \/ Request
    \/ GenStart
    \/ GenLoop

SpecAbandoned == AbandonedInit /\ [][AbandonedNext]_vars

(***************************************************************************)
(* Properties.  ret describes the step that has just been taken (every     *)
(* action writes it), io the transport calls of that step, in order.       *)
(***************************************************************************)

\* C1: is_busy is false before any operation, true when a streaming call has
\* just produced an item, and false at the moment a streaming sequence has
\* ended, whether by its terminator, by stop_inventory or by an error raised
\* inside the stream.
C1_BusyTracksStream ==
    /\ ret.op = "init" => ~is_inventory
    /\ ret.out \in {"yielded", "yielded_none"} => is_inventory
    /\ (gen.pc \in {"done", "raised"} /\ ret.op = gen.op
            /\ ret.out \in {"ended", "raised"}) => ~is_inventory

\* C2: in each streaming operation, a well-formed frame of the operation's
\* opcode at the head of the input is yielded and consumed, in arrival order;
\* after the yield of a NO_COUNT_LABEL frame the next request ends the
\* sequence without any transport call and with is_busy false, after the
\* yield of a SUCCESS frame it does not.
C2_TerminatorEndsStream ==
    [][ /\ \A st \in {SUCCESS, NO_COUNT_LABEL} :
             LET f == IF st = SUCCESS THEN SuccessFrame(StreamCommand(gen.op))
                      ELSE StatusFrame(StreamCommand(gen.op), st) IN
             (/\ gen.pc = "running" /\ gen.started /\ ~gen.term
              /\ is_inventory /\ link
              /\ rx # <<>> /\ Head(rx) = f
              /\ ret'.op = gen.op /\ GenLoop)
                => /\ ret'.out = "yielded" /\ ret'.item = f
                   /\ gen'.pc = "suspended"
                   /\ gen'.term = (st = NO_COUNT_LABEL)
                   /\ rx' = Tail(rx)
                   /\ is_inventory'
        /\ (gen.pc = "running" /\ gen.started /\ gen.term
            /\ ret'.op = gen.op /\ GenLoop)
                => /\ io' = <<>> /\ rx' = rx
                   /\ gen'.pc = "done" /\ ret'.out = "ended"
                   /\ ~is_inventory'
      ]_vars

\* C2: a sequence has ended on its terminator
C2_Witness ==
    gen.pc = "done" /\ ret.out = "ended" /\ ret.arg = "terminator" /\ ~is_inventory

\* C3: when is_busy has been cleared while a streaming sequence was suspended
\* at a yielded item, the next request ends the sequence: no transport call
\* is made, nothing is yielded and is_busy is false.
C3_CancelObservedBeforeRead ==
    [][ (/\ gen.pc = "running" /\ gen.started /\ ~gen.term
         /\ ~is_inventory
         /\ ret'.op = gen.op /\ GenLoop)
            => /\ io' = <<>> /\ rx' = rx
               /\ gen'.pc = "done" /\ ret'.out = "ended"
               /\ ~is_inventory'
      ]_vars

\* C3: a sequence has ended on the cleared flag
C3_Witness ==
    gen.pc = "done" /\ ret.out = "ended" /\ ret.arg = "cancelled" /\ ~is_inventory

\* C4: a request for the next item returns control to the consumer after a
\* bounded number of receives: the loop never makes MaxSpins passes in one
\* request without yielding.
C4_RequestReturns ==
    gen.pc = "running" => gen.spins < MaxSpins

\* C5: while is_busy is true no command of another operation is written to
\* the transport; the INVENTORY_STOP of the cancellation is the only write.
C5_NoCommandWhileBusy ==
    [][ is_inventory =>
           \A i \in DOMAIN io' :
               io'[i].ev = "write" => io'[i].op = INVENTORY_STOP
      ]_vars

\* C6: in every streaming operation, a receive that finds the link up and
\* nothing to read (a timeout, or zero bytes) yields None for that step and
\* leaves is_busy true and the sequence alive.
C6_QuietReceiveYieldsNone ==
    [][ (/\ gen.pc = "running" /\ gen.started /\ ~gen.term
         /\ is_inventory /\ link /\ rx = <<>>
         /\ ret'.op = gen.op /\ GenLoop)
            => /\ ret'.out = "yielded_none"
               /\ gen'.pc = "suspended"
               /\ is_inventory'
      ]_vars

\* C7: a receive of a streaming operation on a transport that has failed
\* (disconnected) ends the sequence and resets is_busy.
C7_FailureEndsStream ==
    [][ (/\ gen.pc = "running" /\ gen.started /\ ~gen.term
         /\ is_inventory /\ ~link
         /\ ret'.op = gen.op /\ GenLoop)
            => /\ gen'.pc \in {"done", "raised"}
               /\ ~is_inventory'
      ]_vars

\* C8: when stop_inventory has returned, in any work mode, is_busy is false,
\* whether the receive of the acknowledgement produced a frame, produced
\* nothing or timed out.
C8_StopClearsBusy ==
    (ret.op = "stop_inventory" /\ ret.out = "returned") => ~is_inventory

\* C8: stop_inventory has returned after its receive timed out, a stream
\* being suspended
C8_Witness ==
    /\ ret.op = "stop_inventory" /\ ret.out = "returned"
    /\ ret.exc \in {"USBError", "TimeoutError"}
    /\ gen.pc = "suspended"

\* C9 (as stated): every stop_inventory in ANSWER_MODE writes one
\* INVENTORY_STOP, with no clear_buffer before it, whatever is_busy is.
C9_StopAlwaysWrites ==
    (/\ ret.op = "stop_inventory" /\ ret.arg = "ANSWER_MODE"
     /\ ret.out \in {"sent", "unsent", "write_raised"})
        => io = <<EvWrite(INVENTORY_STOP)>>

\* C9 (amended): a stop_inventory in ANSWER_MODE writes one INVENTORY_STOP,
\* with no clear_buffer before it, when is_busy is true at the call, and
\* makes no transport call before its receive when is_busy is false.
C9_StopWritesWhenBusy ==
    (/\ ret.op = "stop_inventory" /\ ret.arg = "ANSWER_MODE"
     /\ ret.out \in {"sent", "unsent", "write_raised"})
        => io = IF is_inventory THEN <<EvWrite(INVENTORY_STOP)>> ELSE <<>>

\* C9: INVENTORY_STOP has been written on a serial line with input pending
C9_Witness ==
    /\ ret.op = "stop_inventory" /\ ret.out = "sent"
    /\ io = <<EvWrite(INVENTORY_STOP)>>
    /\ kind = "serial" /\ rx # <<>>

\* C10: a stop_inventory in a work mode other than ANSWER_MODE clears is_busy
\* and does nothing else: no transport write, read or clear_buffer, and no
\* change to the pending input or to a suspended stream.
C10_StopOtherModesOnlyClears ==
    [][ (/\ ret'.op = "stop_inventory"
         /\ ret'.arg \in WorkModes \ {"ANSWER_MODE"}
         /\ StopInventory)
            => /\ io' = <<>>
               /\ ~is_inventory'
               /\ UNCHANGED <<rx, call, gen, link>>
      ]_vars

\* C10: stop_inventory has returned in a mode other than ANSWER_MODE, a
\* stream being suspended
C10_Witness ==
    /\ ret.op = "stop_inventory" /\ ret.out = "returned"
    /\ ret.arg \in WorkModes \ {"ANSWER_MODE"}
    /\ gen.pc = "suspended" /\ ~is_inventory

\* C11: a one-shot operation calls clear_buffer once, then writes its one
\* command, and only then reads: the step up to the write is exactly
\* clear_buffer, write, and the step that receives starts with a read and
\* contains no write.
C11_OneShotOrder ==
    ret.op = "one_shot" =>
        \/ \E c \in OneShotCommands : io = <<EvClear, EvWrite(c)>>
        \/ /\ io # <<>> /\ io[1].ev = "read"
           /\ \A i \in DOMAIN io : io[i].ev # "write"

\* C12: in a one-shot operation, k well-formed frames of another opcode
\* (1 <= k < 20) followed by a well-formed frame of the expected opcode make
\* the engine return that frame, on attempt k + 1, with everything that
\* came after it still pending.
C12_MismatchesSkipped ==
    [][ \A k \in 1..(RetryCeiling - 1) :
          (/\ call.op = "one_shot"
           /\ Len(rx) > k
           /\ \A i \in 1..k : rx[i] \in WrongFrames(call.cmd)
           /\ rx[k + 1] = SuccessFrame(call.cmd)
           /\ OneShotReceive)
              => /\ ret'.out = "returned"
                 /\ ret'.item = SuccessFrame(call.cmd)
                 /\ ret'.tries = k + 1
                 /\ rx' = SubSeq(rx, k + 2, Len(rx))
      ]_vars

\* C12: the reply has been returned on the last attempt the loop allows,
\* with a later frame still pending
C12_Witness ==
    /\ ret.op = "one_shot" /\ ret.out = "returned"
    /\ ret.item = SuccessFrame(GET_DEVICE_INFO)
    /\ ret.tries = RetryCeiling
    /\ rx = <<StatusFrame(GET_DEVICE_INFO, NO_COUNT_LABEL)>>

\* C13: the engine verifies the opcode of what it hands back: a one-shot
\* operation returns, and start_inventory yields, only frames whose opcode
\* is the opcode of the request, the 20th receive attempt included.
C13_OpcodeVerified ==
    /\ (ret.op = "one_shot" /\ ret.out = "returned")
          => FromBytes(Slice(ret.item, 2, 4)) = GET_DEVICE_INFO
    /\ (ret.op = "start_inventory" /\ ret.out = "yielded")
          => FromBytes(Slice(ret.item, 2, 4)) = INVENTORY_ISO_CONTINUE

\* C14: one call of the receive loop makes at most 20 receive attempts and
\* then returns, however many frames of a wrong or unknown opcode the
\* transport still holds; when the 20th attempt read one more such frame,
\* that frame is what is handed back and 20 frames is all the loop took.
C14_AtMostTwentyAttempts ==
    /\ ret.tries <= RetryCeiling
    /\ (ret.op = "one_shot" /\ ret.tries = RetryCeiling
            /\ ret.item \in WrongFrames(GET_DEVICE_INFO))
          => ret.took = RetryCeiling * Len(ret.item)

\* C14: the loop has returned after its 20th attempt on a wrong frame, the
\* transport still holding another one
C14_Witness ==
    /\ ret.op = "one_shot"
    /\ ret.tries = RetryCeiling
    /\ ret.item \in WrongFrames(GET_DEVICE_INFO)
    /\ rx # <<>> /\ Head(rx) \in WrongFrames(GET_DEVICE_INFO)

\* C15: a received frame whose first byte is not HEADER is never what the
\* receive loop hands to a one-shot operation as the response, also when
\* its bytes 2..3 are the expected opcode.
C15_BadHeaderNeverReturned ==
    (ret.op = "one_shot" /\ ret.item # <<>>) => ret.item[1] = HEADER

\* C16: in a one-shot receive every retry is preceded by a clear_buffer
\* after the attempt that was rejected: a step of n attempts has called
\* clear_buffer at least n - 1 times.
C16_FlushBeforeRetry ==
    (ret.op = "one_shot" /\ io # <<>> /\ io[1].ev = "read")
        => Cardinality({i \in DOMAIN io : io[i].ev = "clear"}) >= ret.tries - 1

\* C17: over USB a one-shot receive never hands back a frame shorter than
\* the 5 + LENGTH + 2 bytes its LENGTH byte declares while the transport
\* still holds a packet.
C17_UsbFrameComplete ==
    (/\ kind = "usb" /\ ret.op = "one_shot"
     /\ Len(ret.item) >= 5 /\ ret.item[1] = HEADER)
        => \/ Len(ret.item) >= 5 + ret.item[5] + 2
           \/ rx = <<>>

\* C18: during start_inventory over USB, an inventory frame longer than
\* max_packet_size, arriving as two bulk packets, is yielded as one item
\* holding the whole frame.
C18_UsbInventoryReassembled ==
    [][ \A e \in {1, 3} :
          (/\ kind = "usb"
           /\ gen.op = "start_inventory" /\ gen.pc = "running" /\ is_inventory
           /\ Len(rx) >= 2
           /\ SubSeq(rx, 1, 2) = Packets(LongFrame(INVENTORY_ISO_CONTINUE, e))
           /\ ret'.op = gen.op /\ GenLoop)
              => /\ ret'.out = "yielded"
                 /\ ret'.item = LongFrame(INVENTORY_ISO_CONTINUE, e)
      ]_vars

\* C19: during start_inventory over USB, a bulk packet holding two complete
\* frames yields one item, the first frame; the packet is gone from the
\* transport, and the status of the second frame has no effect.
C19_UsbFirstFrameOnly ==
    [][ (/\ kind = "usb"
         /\ gen.op = "start_inventory" /\ gen.pc = "running" /\ ~gen.term
         /\ is_inventory
         /\ rx # <<>> /\ Head(rx) \in DoubleFrames(INVENTORY_ISO_CONTINUE)
         /\ ret'.op = gen.op /\ GenLoop)
            => /\ ret'.out = "yielded"
               /\ ret'.item = SuccessFrame(INVENTORY_ISO_CONTINUE)
               /\ ret'.took = Len(Head(rx))
               /\ rx' = Tail(rx)
               /\ gen'.pc = "suspended" /\ ~gen'.term
      ]_vars

\* C19: an item has been yielded from a packet that held more than the item
C19_Witness ==
    /\ kind = "usb"
    /\ ret.op = "start_inventory" /\ ret.out = "yielded"
    /\ ret.item = SuccessFrame(INVENTORY_ISO_CONTINUE)
    /\ ret.tries = 1 /\ ret.took > Len(ret.item)

\* C20: during start_inventory over serial, a stray byte followed by a valid
\* inventory frame makes the engine flush and yield None for the stray
\* byte, with the valid frame still to be read by the next iteration.
C20_FrameAfterStrayByteKept ==
    [][ (/\ kind = "serial"
         /\ gen.op = "start_inventory" /\ gen.pc = "running" /\ ~gen.term
         /\ is_inventory
         /\ rx = <<StrayByte, SuccessFrame(INVENTORY_ISO_CONTINUE)>>
         /\ ret'.op = gen.op /\ GenLoop)
            => /\ ret'.out = "yielded_none"
               /\ \E i \in DOMAIN io' : io'[i].ev = "clear"
               /\ rx' = <<SuccessFrame(INVENTORY_ISO_CONTINUE)>>
      ]_vars

\* C21: over serial, an iteration of start_inventory whose prefix read
\* returns fewer than 5 bytes (nothing, a stray byte, or a short prefix that
\* starts with HEADER) calls clear_buffer and yields None; the stream stays
\* active and no error escapes.
C21_ShortReadNotFatal ==
    [][ (/\ kind = "serial" /\ link
         /\ gen.op = "start_inventory" /\ gen.pc = "running" /\ gen.started
         /\ ~gen.term /\ is_inventory
         /\ Bytes(rx) < 5
         /\ ret'.op = gen.op /\ GenLoop)
            => /\ ret'.out = "yielded_none"
               /\ \E i \in DOMAIN io' : io'[i].ev = "clear"
               /\ gen'.pc = "suspended"
               /\ is_inventory'
      ]_vars

\* C22: during start_inventory, on every transport, a received frame that is
\* rejected for a parse error (its first byte is not HEADER, or fewer bytes
\* are present than its LENGTH declares) makes the sequence yield None for
\* that step and stay suspended with is_busy true.
C22_RejectedFrameYieldsNone ==
    [][ (/\ gen.op = "start_inventory" /\ gen.pc = "running" /\ gen.started
         /\ ~gen.term /\ is_inventory /\ link
         /\ rx # <<>>
         /\ \/ Head(rx) = BadHeaderFrame(INVENTORY_ISO_CONTINUE)
            \/ /\ kind = "usb"
               /\ \E e \in {1, 3} :
                     Head(rx) = Head(Packets(LongFrame(INVENTORY_ISO_CONTINUE, e)))
         /\ ret'.op = gen.op /\ GenLoop)
            => /\ ret'.out = "yielded_none"
               /\ gen'.pc = "suspended"
               /\ is_inventory'
      ]_vars

\* C23: during start_inventory, frames whose opcode is INVENTORY_STOP are
\* never yielded, do not end the sequence and do not change is_busy: k such
\* frames at the head of the input are consumed and the step goes on to what
\* follows them (the next frame is yielded, or None when nothing follows),
\* and when the receive loop hands one back after its 20th attempt the loop
\* body swallows it and continues.
C23_StopFrameSwallowed ==
    [][ /\ (ret'.op = "start_inventory" /\ ret'.out = "yielded" /\ GenLoop)
              => command_response(ret'.item) # INVENTORY_STOP
        /\ \A k \in 1..MaxStrays :
             (/\ gen.op = "start_inventory" /\ gen.pc = "running" /\ gen.started
              /\ ~gen.term /\ is_inventory /\ link
              /\ Len(rx) >= k
              /\ \A i \in 1..k : rx[i] = SuccessFrame(INVENTORY_STOP)
              /\ Len(rx) > k => rx[k + 1] = SuccessFrame(INVENTORY_ISO_CONTINUE)
              /\ ret'.op = gen.op /\ GenLoop)
                => /\ is_inventory'
                   /\ gen'.pc \in {"suspended", "running"} /\ ~gen'.term
                   /\ IF k >= RetryCeiling
                      THEN /\ ret'.out = "continued"
                           /\ rx' = SubSeq(rx, RetryCeiling + 1, Len(rx))
                      ELSE IF Len(rx) > k
                      THEN /\ ret'.out = "yielded"
                           /\ ret'.item = rx[k + 1]
                           /\ rx' = SubSeq(rx, k + 2, Len(rx))
                      ELSE /\ ret'.out = "yielded_none"
                           /\ rx' = <<>>
      ]_vars

\* C23: the receive loop has handed back an INVENTORY_STOP frame after its
\* 20th attempt and the loop body has swallowed it
C23_Witness ==
    /\ ret.op = "start_inventory" /\ ret.out = "continued"
    /\ ret.tries = RetryCeiling
    /\ ret.took = RetryCeiling * Len(SuccessFrame(INVENTORY_STOP))
    /\ is_inventory /\ gen.pc = "running"

\* C24: set_power(p) with p outside [0, 33] fails with an error and performs
\* no transport action: no clear_buffer, no write, no read; the pending
\* input and the reader are as they were.
C24_SetPowerRejected ==
    [][ \A power \in Powers, reserve \in Reserves :
          (power \notin 0..33 /\ Idle /\ set_power(power, reserve))
              => /\ ret'.op = "set_power" /\ ret'.out = "raised"
                 /\ ret'.exc = "AssertionError"
                 /\ io' = <<>>
                 /\ UNCHANGED <<rx, call, link, is_inventory>>
      ]_vars

\* C24: set_power has raised on a serial line with input pending, which is
\* still pending
C24_Witness ==
    /\ ret.op = "set_power" /\ ret.out = "raised" /\ ret.exc = "AssertionError"
    /\ io = <<>>
    /\ kind = "serial" /\ rx = <<SuccessFrame(INVENTORY_STOP)>>

\* C25: every operation that validates its arguments rejects an invalid
\* argument before any transport I/O: set_power, set_relay and
\* set_inventory_range at the call, read_memory, write_memory and
\* start_inventory (ANSWER_MODE without a parameter) at the first request of
\* their sequence; the step raises with no clear_buffer, write or read and
\* with the pending input untouched.
C25_InvalidArgumentBeforeIO ==
    [][ /\ \A power \in Powers, reserve \in Reserves :
             ((power \notin 0..33 \/ reserve \notin 0..1)
                  /\ Idle /\ set_power(power, reserve))
                 => ret'.out = "raised" /\ io' = <<>> /\ rx' = rx
        /\ \A release \in Releases, valid_time \in ByteValues :
             ((release \notin {"True", "False"} \/ valid_time \notin 0..255)
                  /\ Idle /\ set_relay(release, valid_time))
                 => ret'.out = "raised" /\ io' = <<>> /\ rx' = rx
        /\ \A start_address \in ByteValues, length \in ByteValues :
             ((start_address \notin 0..255 \/ length \notin 0..255)
                  /\ Idle /\ set_inventory_range(start_address, length))
                 => ret'.out = "raised" /\ io' = <<>> /\ rx' = rx
        /\ (/\ gen.op \in {"read_memory", "write_memory", "start_inventory"}
            /\ ~gen.okargs
            /\ ret'.op = gen.op /\ GenStart)
                 => ret'.out = "raised" /\ io' = <<>> /\ rx' = rx
      ]_vars

\* C25: the first request of a write_memory sequence with invalid arguments
\* has raised, over serial, with the pending input untouched
C25_Witness ==
    /\ ret.op = "write_memory" /\ ret.out = "raised" /\ ret.exc = "AssertionError"
    /\ gen.pc = "raised" /\ ~gen.okargs
    /\ io = <<>>
    /\ kind = "serial" /\ rx = <<SuccessFrame(INVENTORY_STOP)>>

\* C26: the engine does not pipeline: within the transport calls of one
\* step of an operation, two writes are never made in a row without a read
\* between them.
C26_NoTwoWritesInARow ==
    \A i, j \in DOMAIN io :
        (i < j /\ io[i].ev = "write" /\ io[j].ev = "write")
            => \E m \in DOMAIN io : i < m /\ m < j /\ io[m].ev = "read"

\* C27 (as stated): every streaming call, once started, has set is_busy and
\* has written its command exactly once (after one clear_buffer) before its
\* first read: read_memory, write_memory, lock_memory, kill_tag, and
\* start_inventory in every work mode.
C27_StreamWritesCommandOnce ==
    (ret.op \in StreamOps /\ ret.out = "started")
        => /\ is_inventory
           /\ io = <<EvClear, EvWrite(StreamCommand(ret.op))>>

\* C27 (amended): every streaming call, once started, has set is_busy; it
\* has written its command exactly once, after one clear_buffer and before
\* its first read, except start_inventory in a work mode other than
\* ANSWER_MODE, which has made no transport call; the steps of the sequence
\* after that write nothing.
C27_StreamWritesCommandInAnswerMode ==
    /\ (ret.op \in StreamOps /\ ret.out = "started")
          => /\ is_inventory
             /\ io = IF ret.op = "start_inventory" /\ gen.mode # "ANSWER_MODE"
                     THEN <<>>
                     ELSE <<EvClear, EvWrite(StreamCommand(ret.op))>>
    /\ (ret.op \in StreamOps /\ gen.started /\ ret.out # "started")
          => \A i \in DOMAIN io : io[i].ev # "write"

\* C27: start_inventory has started in TRIGGER_MODE without a transport call
C27_Witness ==
    /\ ret.op = "start_inventory" /\ ret.out = "started"
    /\ gen.mode = "TRIGGER_MODE" /\ gen.started
    /\ is_inventory /\ io = <<>>

\* C28: clear_buffer leaves the transport as it is on TCP and USB (no
\* pending input is discarded, no pending output either) and on serial it
\* resets both the input buffer and the output buffer.
C28_ClearBufferBySubclass ==
    [][ ClearBuffer =>
          IF kind = "serial" THEN rx' = <<>> /\ tx' = <<>>
          ELSE rx' = rx /\ tx' = tx
      ]_vars

\* C28: clear_buffer has returned on a TCP transport that still holds the
\* input and the output it held
C28_Witness ==
    /\ ret.op = "clear_buffer" /\ ret.out = "returned"
    /\ kind = "tcp"
    /\ rx = <<SuccessFrame(INVENTORY_STOP), SuccessFrame(INVENTORY_ISO_CONTINUE)>>
    /\ tx = Frame(INVENTORY_STOP, <<>>)

\* C29: select_mask(mask, start_address) sends command data made of the bit
\* pointer start_address * 8 in 2 bytes, big-endian, one length byte equal
\* to the number of bits of the mask as given (8 * len(mask), taken before
\* the padding), then the bytes of the mask, followed by exactly one zero
\* byte when len(mask) is odd and by nothing when it is even.
C29_SelectMaskPayload ==
    [][ \A mask \in Masks, start_address \in StartAddresses :
          (/\ 0 <= start_address /\ start_address * 8 < 65536
           /\ 8 * Len(mask) < 256
           /\ Idle /\ link
           /\ select_mask(mask, start_address))
              => /\ ret'.op = "select_mask" /\ ret'.out = "sent"
                 /\ io' = <<EvClear, EvWrite(SELECT_MASK)>>
                 /\ Len(ret'.sent) = 3 + Len(mask) + (IF Len(mask) % 2 = 1 THEN 1 ELSE 0)
                 /\ 256 * ret'.sent[1] + ret'.sent[2] = start_address * 8
                 /\ ret'.sent[1] < 256 /\ ret'.sent[2] < 256
                 /\ ret'.sent[3] = 8 * Len(mask)
                 /\ \A i \in 1..Len(mask) : ret'.sent[3 + i] = mask[i]
                 /\ Len(mask) % 2 = 1 => ret'.sent[Len(ret'.sent)] = 0
      ]_vars

\* C29: select_mask has sent the data of a 3-byte mask at byte address 1:
\* pointer 8, length 24 bits, the mask and one padding byte
C29_Witness ==
    /\ ret.op = "select_mask" /\ ret.out = "sent"
    /\ ret.sent = <<0, 8, 24, 171, 0, 171, 0>>
    /\ io = <<EvClear, EvWrite(SELECT_MASK)>>

\* C30: stop_inventory in ANSWER_MODE reads at most one frame: with an
\* inventory frame pending ahead of the stop acknowledgement, its receive
\* takes the first frame only and the acknowledgement is still pending when
\* it returns.
C30_StopReadsOneFrame ==
    [][ (/\ call.op = "stop_inventory" /\ call.mode = "ANSWER_MODE" /\ link
         /\ Len(rx) >= 2
         /\ rx[1] \in {StatusFrame(INVENTORY_ISO_CONTINUE, st) : st \in StatusValues}
         /\ rx[2] = SuccessFrame(INVENTORY_STOP)
         /\ ret'.op = "stop_inventory" /\ StopReceive)
            => /\ ret'.tries = 1
               /\ rx' = Tail(rx)
      ]_vars

\* C31: in read_memory, write_memory, lock_memory and kill_tag a frame of
\* the operation's opcode with a status other than NO_COUNT_LABEL (SUCCESS
\* or an error status) is yielded with that status unchanged and does not
\* end the stream: the sequence is suspended, not marked to end, and is_busy
\* stays true.
C31_OnlyNoCountLabelEnds ==
    [][ \A st \in StatusValues \ {NO_COUNT_LABEL} :
          (/\ gen.op \in StreamOps \ {"start_inventory"}
           /\ gen.pc = "running" /\ gen.started /\ ~gen.term
           /\ is_inventory /\ link
           /\ rx # <<>> /\ Head(rx) = StatusFrame(StreamCommand(gen.op), st)
           /\ ret'.op = gen.op /\ GenLoop)
              => /\ ret'.out = "yielded"
                 /\ ret'.item = Head(rx) /\ ret'.item[6] = st
                 /\ gen'.pc = "suspended" /\ ~gen'.term
                 /\ is_inventory'
      ]_vars

\* C31: kill_tag has yielded a frame with an error status and the sequence
\* goes on
C31_Witness ==
    /\ ret.op = "kill_tag" /\ ret.out = "yielded"
    /\ ret.item = StatusFrame(KILL_ISO_TAG, OTHER_STATUS)
    /\ gen.pc = "suspended" /\ ~gen.term /\ is_inventory

\* C32: calling a streaming operation only creates the iterator: the call
\* makes no transport call and leaves is_busy and the pending input as they
\* are; at the first request, whatever is_busy was by then (a stop_inventory
\* may have cleared it in between), is_busy becomes true and an operation
\* that writes a command (every one but start_inventory outside ANSWER_MODE)
\* flushes and writes it then.
C32_StreamStartsAtFirstRequest ==
    [][ /\ (ret'.out = "created" /\ CallStream)
              => /\ io' = <<>> /\ rx' = rx
                 /\ is_inventory' = is_inventory
                 /\ gen'.pc = "created" /\ ~gen'.started
        /\ (/\ gen.pc = "running" /\ ~gen.started
            /\ gen.okargs /\ link
            /\ ret'.op = gen.op /\ GenStart)
              => /\ is_inventory'
                 /\ gen'.started /\ ret'.out = "started"
                 /\ gen.mode = "ANSWER_MODE"
                        => io' = <<EvClear, EvWrite(StreamCommand(gen.op))>>
      ]_vars

\* C32: stop_inventory has returned between the call of a streaming
\* operation and the first request of its sequence
C32_Witness ==
    /\ ret.op = "stop_inventory" /\ ret.out = "returned"
    /\ gen.pc = "created" /\ ~gen.started
    /\ ~is_inventory

\* C33: the first request of start_inventory in ANSWER_MODE without an
\* inventory parameter fails with an error and leaves the reader as it was:
\* nothing is written and is_busy, false before, is false afterwards.
C33_MissingParameterLeavesIdle ==
    [][ (/\ gen.op = "start_inventory" /\ gen.mode = "ANSWER_MODE" /\ ~gen.okargs
         /\ gen.pc = "running" /\ ~gen.started
         /\ ~is_inventory
         /\ ret'.op = gen.op /\ GenStart)
            => /\ ret'.out = "raised"
               /\ io' = <<>> /\ rx' = rx
               /\ ~is_inventory'
      ]_vars

\* C34: every non-None item yielded by start_inventory is a frame whose
\* first byte is HEADER and whose length is exactly 5 + LENGTH + 2, LENGTH
\* being byte 4 of the received bytes (the fifth byte of the item, which
\* starts with the first five received bytes); received bytes that hold
\* fewer than LENGTH + 2 bytes after the prefix are therefore never yielded,
\* and bytes received beyond the frame are not part of the item.
C34_YieldedItemIsOneFrame ==
    (ret.op = "start_inventory" /\ ret.out = "yielded")
        => /\ Len(ret.item) >= 5
           /\ ret.item[1] = HEADER
           /\ Len(ret.item) = 5 + ret.item[5] + 2
           /\ Len(ret.item) <= ret.took

\* C34: a frame has been yielded from received bytes whose first frame was
\* followed by a frame of another status
C34_Witness ==
    /\ kind = "usb"
    /\ ret.op = "start_inventory" /\ ret.out = "yielded"
    /\ ret.item = SuccessFrame(INVENTORY_ISO_CONTINUE)
    /\ ret.took = Len(ret.item) + Len(StatusFrame(INVENTORY_ISO_CONTINUE, NO_COUNT_LABEL))
    /\ ~gen.term

\* C35: after the consumer has abandoned a streaming iterator at an item
\* other than the terminator, is_busy stays true whatever the reader is
\* used for, as long as stop_inventory is not called.
C35_AbandonedStaysBusy ==
    is_inventory = TRUE

\* C36: TcpTransport.reconnect(ip_address, port, timeout) replaces each
\* parameter that is supplied, keeps each parameter that is omitted and
\* connects to the resulting (ip_address, port): after a reconnect that
\* supplied a port, the transport is connected to that port.
C36_ReconnectAppliesParameters ==
    [][ \A ip_address \in ReconnectAddresses, port \in ReconnectPorts,
           timeout \in ReconnectTimeouts :
          (/\ kind = "tcp"
           /\ ret'.op = "reconnect" /\ ret'.out = "returned"
           /\ reconnect(ip_address, port, timeout))
              => /\ tcp'.ip_address =
                        IF ip_address = Omitted THEN tcp.ip_address ELSE ip_address[1]
                 /\ tcp'.port = IF port = Omitted THEN tcp.port ELSE port[1]
                 /\ tcp'.timeout =
                        IF timeout = Omitted THEN tcp.timeout ELSE timeout[1]
                 /\ tcp'.socket.connected
                 /\ tcp'.socket.ip_address = tcp'.ip_address
                 /\ tcp'.socket.port = tcp'.port
      ]_vars

====
